---- MODULE Spec2Model ----
(***************************************************************************)
(* The source-file analysis pipeline of the SwarmDesk UML generator       *)
(* (uml-generator.js): discovery, per-file analysis, aggregation into     *)
(* packages, external stubs, snapshot assembly; getGitMetrics; and the    *)
(* command line run (main) around generateUML.                             *)
(*                                                                         *)
(* Strings are sequences of one-character strings, so that substring,     *)
(* prefix, extension and case conversions are computed, not assumed.      *)
(* A path relative to the project root is a sequence of entry names.      *)
(***************************************************************************)
EXTENDS Integers, Sequences, FiniteSets, TLC

(***************************************************************************)
(* String primitives of the JavaScript runtime used by the code            *)
(***************************************************************************)

\* String.prototype.startsWith
StartsWith(s, p) ==
    /\ Len(p) <= Len(s)
    /\ SubSeq(s, 1, Len(p)) = p

\* String.prototype.includes
Includes(s, p) ==
    \E i \in 0..(Len(s) - Len(p)) : SubSeq(s, i + 1, i + Len(p)) = p

\* Array.prototype.includes on a sequence
Contains(seq, x) ==
    \E i \in 1..Len(seq) : seq[i] = x

RECURSIVE Join(_, _)
\* path.join / path.relative on POSIX: the entry names separated by "/"
Join(segs, sep) ==
    IF segs = <<>> THEN <<>>
    ELSE IF Len(segs) = 1 THEN segs[1]
    ELSE segs[1] \o sep \o Join(Tail(segs), sep)

Slash == <<"/">>

RelativePath(path) == Join(path, Slash)

\* the position of the last "." of a name, 0 when there is none
LastDot(name) ==
    LET dots == {i \in 1..Len(name) : name[i] = "."}
    IN  IF dots = {} THEN 0
        ELSE CHOOSE i \in dots : \A j \in dots : j <= i

\* path.extname: from the last "." on, "" when the name has no "." or only
\* a leading one
ExtName(name) ==
    LET d == LastDot(name)
    IN  IF d <= 1 THEN <<>> ELSE SubSeq(name, d, Len(name))

\* path.basename(p, ext) of an entry name: the extension cut off
BaseName(name, ext) ==
    IF ext # <<>> /\ Len(ext) < Len(name)
          /\ SubSeq(name, Len(name) - Len(ext) + 1, Len(name)) = ext
    THEN SubSeq(name, 1, Len(name) - Len(ext))
    ELSE name

\* path.dirname of a relative path: "." for an entry of the root itself
DirName(path) ==
    IF Len(path) <= 1 THEN <<".">>
    ELSE Join(SubSeq(path, 1, Len(path) - 1), Slash)

UpperCase == <<"A","B","C","D","E","F","G","H","I","J","K","L","M",
               "N","O","P","Q","R","S","T","U","V","W","X","Y","Z">>

LowerCase == <<"a","b","c","d","e","f","g","h","i","j","k","l","m",
               "n","o","p","q","r","s","t","u","v","w","x","y","z">>

\* String.prototype.toLowerCase
ToLowerCase(s) ==
    [i \in 1..Len(s) |->
        IF \E k \in 1..Len(UpperCase) : UpperCase[k] = s[i]
        THEN LowerCase[CHOOSE k \in 1..Len(UpperCase) : UpperCase[k] = s[i]]
        ELSE s[i]]

\* className.replace(/\./g, '_')
ReplaceDots(s) ==
    [i \in 1..Len(s) |-> IF s[i] = "." THEN "_" ELSE s[i]]

(***************************************************************************)
(* Literals of the code                                                    *)
(***************************************************************************)

SourceExtensions ==
    { <<".","j","s">>, <<".","j","s","x">>, <<".","t","s">>,
      <<".","t","s","x">>, <<".","m","j","s">> }

TypeScriptExtensions == { <<".","t","s">>, <<".","t","s","x">> }

ComponentPrefix == <<"c","o","m","p","o","n","e","n","t","_">>

ExternalIdPrefix == <<"e","x","t","e","r","n","a","l","_">>

ExternalPkgPath == <<"e","x","t","e","r","n","a","l">>

ExternalPkgName ==
    <<"E","x","t","e","r","n","a","l"," ","L","i","b","r","a","r","i","e","s">>

ExternalPkgId ==
    <<"p","a","c","k","a","g","e","_","e","x","t","e","r","n","a","l">>

RootName == <<"r","o","o","t">>

StubLines == 75

(***************************************************************************)
(* Names used by the bounded file systems and file contents                *)
(***************************************************************************)

NmReadme == <<"R","E","A","D","M","E",".","m","d">>
NmIndexJs == <<"i","n","d","e","x",".","j","s">>
NmSrc == <<"s","r","c">>
NmUtilTs == <<"u","t","i","l",".","t","s">>
NmFooTsx == <<"F","o","o",".","t","s","x">>
NmNodeModules == <<"n","o","d","e","_","m","o","d","u","l","e","s">>
NmMJs == <<"m",".","j","s">>
NmLib == <<"l","i","b">>
NmXMjs == <<"x",".","m","j","s">>
NmSrcsJsx == <<"s","r","c","s",".","j","s","x">>
NmDotJs == <<".","j","s">>
NmLinkTs == <<"l","i","n","k",".","t","s">>
NmDist == <<"d","i","s","t">>
NmBTs == <<"b",".","t","s">>
NmUtilTestTs == <<"u","t","i","l",".","t","e","s","t",".","t","s">>
NmUtilTestts == <<"u","t","i","l",".","t","e","s","t","t","s">>
NmXTestMjs == <<"x",".","t","e","s","t",".","m","j","s">>
NmIndexTestJs == <<"i","n","d","e","x",".","t","e","s","t",".","j","s">>
NmExternal == <<"e","x","t","e","r","n","a","l">>

ClsA == <<"A">>
ClsB == <<"B">>
ClsC == <<"C">>
ClsD == <<"D">>
ClsI == <<"I">>
ClsM == <<"M">>
ClsW == <<"W">>
ClsFoo == <<"F","o","o">>
ClsFooLower == <<"f","o","o">>
ClsUiBox == <<"u","i",".","B","o","x">>
NmRun == <<"r","u","n">>
SpecLibFoo == <<".","/","l","i","b","/","F","o","o",".","j","s">>
SpecReact == <<"r","e","a","c","t">>

(***************************************************************************)
(* File contents, as what the TypeScript parser and the regular            *)
(* expressions of analyzeFile see in the text:                             *)
(*   ast          the class and interface declaration nodes in visit order,*)
(*                each with its name (none for an anonymous class), its    *)
(*                heritage clauses and its method names;                   *)
(*   exportName   the match of /export (default)? (function|const|class)   *)
(*                IDENT/ (none or one name);                               *)
(*   rxExtends    the match of /class IDENT extends PARENT/;               *)
(*   rxImplements the match of /class IDENT implements LIST/, split;       *)
(*   rxMethods    the names taken from the function-like matches;          *)
(*   imports      the module specifiers matched by the import regex;       *)
(*   lines        content.split('\n').length;                              *)
(*   complexity   the number of keyword matches.                           *)
(***************************************************************************)

Clause(token, types) == [token |-> token, types |-> types]

Decl(kind, name, heritage, methods) ==
    [kind |-> kind, name |-> name, heritage |-> heritage, methods |-> methods]

Content(ast, exportName, rxExtends, rxImplements, rxMethods, imports, lines, complexity) ==
    [ast |-> ast, exportName |-> exportName, rxExtends |-> rxExtends,
     rxImplements |-> rxImplements, rxMethods |-> rxMethods, imports |-> imports,
     lines |-> lines, complexity |-> complexity]

\* import { Foo } from './lib/Foo.js'
\* class A extends Foo { run() {} }
TextAExtendsFoo ==
    Content(<<Decl("class", <<ClsA>>, <<Clause("extends", <<ClsFoo>>)>>, <<NmRun>>)>>,
            <<>>, <<ClsFoo>>, <<>>, <<>>, <<SpecLibFoo, SpecReact>>, 3, 0)

\* export class B extends foo implements Foo {}
TextBExtendsLowerFoo ==
    Content(<<Decl("class", <<ClsB>>,
                   <<Clause("extends", <<ClsFooLower>>), Clause("implements", <<ClsFoo>>)>>,
                   <<>>)>>,
            <<ClsB>>, <<ClsFooLower>>, <<>>, <<>>, <<>>, 1, 6)

\* export class Foo extends ui.Box {}
TextFooExtendsUiBox ==
    Content(<<Decl("class", <<ClsFoo>>, <<Clause("extends", <<ClsUiBox>>)>>, <<>>)>>,
            <<ClsFoo>>, <<>>, <<>>, <<>>, <<>>, 2, 11)

\* interface I {}  class C extends D implements I {}  class D {}
TextTwoClasses ==
    Content(<<Decl("interface", <<ClsI>>, <<>>, <<>>),
              Decl("class", <<ClsC>>,
                   <<Clause("extends", <<ClsD>>), Clause("implements", <<ClsI>>)>>, <<>>),
              Decl("class", <<ClsD>>, <<>>, <<>>)>>,
            <<>>, <<ClsD>>, <<ClsI>>, <<>>, <<>>, 4, 16)

\* class M extends {}     (malformed: the extends list is empty)
TextEmptyExtends ==
    Content(<<Decl("class", <<ClsM>>, <<Clause("extends", <<>>)>>, <<>>)>>,
            <<>>, <<>>, <<>>, <<>>, <<>>, 1, 0)

\* }}} if (     (malformed: the parser's best-effort tree holds no declaration)
TextGarbage ==
    Content(<<>>, <<>>, <<>>, <<>>, <<>>, <<>>, 1, 1)

\* export const W = class Inner extends Foo {}   (a class expression)
TextClassExpression ==
    Content(<<>>, <<ClsW>>, <<ClsFoo>>, <<>>, <<ClsW>>, <<>>, 1, 0)

\* the text of a file that is never read
NoContent == Content(<<>>, <<>>, <<>>, <<>>, <<>>, <<>>, 0, 0)

MalformedTexts == {TextEmptyExtends, TextGarbage}

(***************************************************************************)
(* The file system: a sequence of nodes, the root first, every entry       *)
(* after its directory, in the order readdirSync returns them.             *)
(*   kind      "dir", "file", or "other" (symbolic link, socket, ...)      *)
(*   readable  readdirSync (a directory) or readFileSync (a file) succeeds *)
(***************************************************************************)

Node(path, kind, readable, content) ==
    [path |-> path, kind |-> kind, readable |-> readable, content |-> content]

\* a candidate entry: its path, its kind, and the (readable, content) pairs
\* it may be created with
Cand(path, kind, choices) == [path |-> path, kind |-> kind, choices |-> choices]

Parent(path) == SubSeq(path, 1, Len(path) - 1)

HasDir(fsys, path) ==
    \E i \in 1..Len(fsys) : fsys[i].path = path /\ fsys[i].kind = "dir"

NumFiles(fsys) == Cardinality({i \in 1..Len(fsys) : fsys[i].kind = "file"})

NumEntries(fsys) == Len(fsys) - 1

RECURSIVE BuildFs(_, _, _, _)
\* every file system made of the root and some of the first n candidates,
\* with at most maxFiles regular files and maxEntries entries
BuildFs(cands, n, maxFiles, maxEntries) ==
    IF n = 0 THEN { <<Node(<<>>, "dir", r, NoContent)>> : r \in BOOLEAN }
    ELSE LET prev == BuildFs(cands, n - 1, maxFiles, maxEntries)
             c == cands[n]
             open == { f \in prev :
                         /\ HasDir(f, Parent(c.path))
                         /\ NumEntries(f) < maxEntries
                         /\ (c.kind = "file" => NumFiles(f) < maxFiles) }
         IN  prev \cup
             { Append(f, Node(c.path, c.kind, ch[1], ch[2])) :
                 f \in open, ch \in c.choices }

(***************************************************************************)
(* findSourceFiles                                                          *)
(***************************************************************************)

\* fs.readdirSync(dir, {withFileTypes: true}): the entries of one directory
ReadDir(fsys, dir) ==
    SelectSeq(fsys, LAMBDA n : Len(n.path) = Len(dir) + 1 /\ Parent(n.path) = dir)

\* mutant: the exclude strings matched as prefixes only
IsExcludedPrefixOnly(rel, excludes) ==
    \E i \in 1..Len(excludes) : StartsWith(rel, excludes[i])

\* excludes.some(pattern => relativePath.includes(pattern))
IsExcluded(rel, excludes) ==
    \E i \in 1..Len(excludes) : Includes(rel, excludes[i])

\* ['.js', '.jsx', '.ts', '.tsx', '.mjs'].includes(ext)
IsSourceExt(ext) == ext \in SourceExtensions

\* mutant: the include strings matched anywhere in the path
IsIncludedAnywhere(rel, includes) ==
    \/ Len(includes) = 0
    \/ \E i \in 1..Len(includes) : Includes(rel, includes[i])

\* includes.length === 0 || includes.some(pattern => relativePath.startsWith(pattern))
IsIncluded(rel, includes) ==
    \/ Len(includes) = 0
    \/ \E i \in 1..Len(includes) : StartsWith(rel, includes[i])

RECURSIVE Walk(_, _, _, _, _)
RECURSIVE WalkEntries(_, _, _, _, _)
\* walk(currentDir): readdirSync throws on a directory that cannot be read,
\* and nothing in walk or findSourceFiles catches it
Walk(fsys, dir, includes, excludes, acc) ==
    IF ~dir.readable THEN [threw |-> TRUE, files |-> acc.files]
    ELSE WalkEntries(fsys, ReadDir(fsys, dir.path), includes, excludes, acc)

\* the for loop of walk over the entries of one directory
WalkEntries(fsys, entries, includes, excludes, acc) ==
    IF entries = <<>> THEN acc
    ELSE LET entry == Head(entries)
             relativePath == RelativePath(entry.path)
             ext == ExtName(entry.path[Len(entry.path)])
             after ==
                 IF IsExcluded(relativePath, excludes) THEN acc
                 ELSE IF entry.kind = "dir"
                      THEN Walk(fsys, entry, includes, excludes, acc)
                 ELSE IF entry.kind = "file"
                      THEN IF IsSourceExt(ext) /\ IsIncluded(relativePath, includes)
                           THEN [threw |-> FALSE, files |-> Append(acc.files, entry.path)]
                           ELSE acc
                 ELSE acc
         IN  IF after.threw THEN after
             ELSE WalkEntries(fsys, Tail(entries), includes, excludes, after)

\* findSourceFiles(dir, includes, excludes): [threw, files]
FindSourceFiles(fsys, includes, excludes) ==
    Walk(fsys, fsys[1], includes, excludes, [threw |-> FALSE, files |-> <<>>])

(***************************************************************************)
(* parseWithTypeScript                                                      *)
(***************************************************************************)

RECURSIVE ApplyHeritageTolerant(_, _)
\* mutant: an extends clause with no type read as no extends clause
ApplyHeritageTolerant(clauses, info) ==
    IF clauses = <<>> THEN info
    ELSE LET clause == Head(clauses)
         IN  IF clause.token = "extends" /\ clause.types # <<>>
             THEN ApplyHeritageTolerant(Tail(clauses),
                                        [info EXCEPT !.extends = <<clause.types[1]>>])
             ELSE IF clause.token = "implements"
                  THEN ApplyHeritageTolerant(Tail(clauses),
                                             [info EXCEPT !.implements = clause.types])
             ELSE ApplyHeritageTolerant(Tail(clauses), info)

RECURSIVE ApplyHeritage(_, _)
\* the loop over node.heritageClauses of a class declaration; types[0] of
\* an extends clause with no type is undefined, and reading its expression
\* throws a TypeError
ApplyHeritage(clauses, info) ==
    IF clauses = <<>> THEN info
    ELSE LET clause == Head(clauses)
         IN  IF clause.token = "extends"
             THEN IF clause.types = <<>>
                  THEN [info EXCEPT !.threw = TRUE]
                  ELSE ApplyHeritage(Tail(clauses),
                                     [info EXCEPT !.extends = <<clause.types[1]>>])
             ELSE IF clause.token = "implements"
                  THEN ApplyHeritage(Tail(clauses),
                                     [info EXCEPT !.implements = clause.types])
             ELSE ApplyHeritage(Tail(clauses), info)

\* classInfo of one named class declaration; extends is <<>> for null
ClassInfo(node) ==
    ApplyHeritage(node.heritage,
                  [threw |-> FALSE, name |-> node.name[1], extends |-> <<>>,
                   implements |-> <<>>, methods |-> node.methods])

RECURSIVE InterfaceExtends(_, _)
\* ifaceInfo.extends of an interface declaration
InterfaceExtends(clauses, acc) ==
    IF clauses = <<>> THEN acc
    ELSE IF Head(clauses).token = "extends"
         THEN InterfaceExtends(Tail(clauses), Head(clauses).types)
         ELSE InterfaceExtends(Tail(clauses), acc)

RECURSIVE Visit(_, _, _)
\* visit(node) over the declaration nodes of the source file, in order
Visit(ast, isTypeScript, result) ==
    IF ast = <<>> THEN result
    ELSE LET node == Head(ast)
             info == ClassInfo(node)
             isClass == node.kind = "class" /\ node.name # <<>>
             withClass ==
                 IF isClass
                 THEN [result EXCEPT !.classes =
                          Append(@, [name |-> info.name, extends |-> info.extends,
                                     implements |-> info.implements,
                                     methods |-> info.methods])]
                 ELSE result
             withInterface ==
                 IF isTypeScript /\ node.kind = "interface" /\ node.name # <<>>
                 THEN [withClass EXCEPT !.interfaces =
                          Append(@, [name |-> node.name[1],
                                     extends |-> InterfaceExtends(node.heritage, <<>>)])]
                 ELSE withClass
         IN  IF isClass /\ info.threw
             THEN [result EXCEPT !.threw = TRUE]
             ELSE Visit(Tail(ast), isTypeScript, withInterface)

\* parseWithTypeScript(filePath, content): [threw, classes, interfaces]
ParseWithTypeScript(ext, ast) ==
    Visit(ast, ext \in TypeScriptExtensions,
          [threw |-> FALSE, classes |-> <<>>, interfaces |-> <<>>])

(***************************************************************************)
(* analyzeFile                                                              *)
(***************************************************************************)

\* the text after the last "/" of a string: split('/').pop(), path.basename
LastSegment(s) ==
    LET slashes == {i \in 1..Len(s) : s[i] = "/"}
        last == IF slashes = {} THEN 0
                ELSE CHOOSE i \in slashes : \A j \in slashes : j <= i
    IN  SubSeq(s, last + 1, Len(s))

\* importPath.startsWith('.') || importPath.startsWith('/')
IsLocalImport(importPath) ==
    StartsWith(importPath, <<".">>) \/ StartsWith(importPath, Slash)

\* path.basename(importPath, path.extname(importPath))
DepName(importPath) ==
    BaseName(LastSegment(importPath), ExtName(LastSegment(importPath)))

RECURSIVE Dependencies(_, _)
\* the while loop over the import matches
Dependencies(imports, acc) ==
    IF imports = <<>> THEN acc
    ELSE LET importPath == Head(imports)
             depName == DepName(importPath)
         IN  IF IsLocalImport(importPath) /\ ~Contains(acc, depName)
             THEN Dependencies(Tail(imports), Append(acc, depName))
             ELSE Dependencies(Tail(imports), acc)

\* mutant: the thresholds taken inclusively
ThreatLevelInclusive(cyclomaticComplexity) ==
    IF cyclomaticComplexity >= 15 THEN "CRITICAL"
    ELSE IF cyclomaticComplexity >= 10 THEN "HIGH"
    ELSE IF cyclomaticComplexity >= 5 THEN "MODERATE"
    ELSE "LOW"

\* complexityMetrics.threatLevel
ThreatLevel(cyclomaticComplexity) ==
    IF cyclomaticComplexity > 15 THEN "CRITICAL"
    ELSE IF cyclomaticComplexity > 10 THEN "HIGH"
    ELSE IF cyclomaticComplexity > 5 THEN "MODERATE"
    ELSE "LOW"

\* complexityMetrics.threatColor
ThreatColor(cyclomaticComplexity) ==
    IF cyclomaticComplexity > 15 THEN "red"
    ELSE IF cyclomaticComplexity > 10 THEN "orange"
    ELSE IF cyclomaticComplexity > 5 THEN "yellow"
    ELSE "green"

\* complexityMetrics.label
ThreatLabel(cyclomaticComplexity) ==
    IF cyclomaticComplexity > 15 THEN "CRITICAL"
    ELSE IF cyclomaticComplexity > 10 THEN "HIGH"
    ELSE IF cyclomaticComplexity > 5 THEN "MODERATE"
    ELSE "LOW"

\* the extensions /\.(jsx?|tsx?)$/ matches
TestableExtensions ==
    { <<".","j","s">>, <<".","j","s","x">>, <<".","t","s">>, <<".","t","s","x">> }

DotTest == <<".","t","e","s","t">>

\* filePath.replace(/\.(jsx?|tsx?)$/, '.test$1') on the entry name: $1 is
\* the extension without its dot; a name the expression does not match is
\* left as it is
TestFileName(name) ==
    LET d == LastDot(name)
        suffix == SubSeq(name, d, Len(name))
    IN  IF d >= 1 /\ suffix \in TestableExtensions
        THEN SubSeq(name, 1, d - 1) \o DotTest \o Tail(suffix)
        ELSE name

\* fs.existsSync
ExistsSync(fsys, path) ==
    \E i \in 1..Len(fsys) : fsys[i].path = path

\* analyzeFile(filePath, projectRoot), with the value token that
\* Math.random().toString(36).substring(2, 9) yields: [threw] or [threw, rec]
AnalyzeFile(fsys, node, token) ==
    LET content == node.content
        ext == ExtName(node.path[Len(node.path)])
        relativePath == RelativePath(node.path)
        fileName == BaseName(node.path[Len(node.path)], ext)
        packagePath == DirName(node.path)
        tsResults == ParseWithTypeScript(ext, content.ast)
        useParser == Len(tsResults.classes) > 0
        mainClass == tsResults.classes[1]
        name == IF useParser THEN mainClass.name
                ELSE IF content.exportName # <<>> THEN content.exportName[1]
                ELSE fileName
        extendsClass == IF useParser THEN mainClass.extends ELSE content.rxExtends
        implementsInterfaces ==
            IF useParser THEN mainClass.implements ELSE content.rxImplements
        methods == IF useParser THEN mainClass.methods ELSE content.rxMethods
    IN  IF ~node.readable \/ tsResults.threw
        THEN [threw |-> TRUE]
        ELSE [threw |-> FALSE,
              rec |-> [id |-> ComponentPrefix \o token,
                       name |-> name,
                       package |-> IF packagePath = <<>> THEN RootName ELSE packagePath,
                       filePath |-> relativePath,
                       methods |-> methods,
                       fields |-> <<>>,
                       dependencies |-> Dependencies(content.imports, <<>>),
                       extends |-> extendsClass,
                       implements |-> implementsInterfaces,
                       complexity |-> content.complexity,
                       linesOfCode |-> content.lines,
                       threatLevel |-> ThreatLevel(content.complexity),
                       threatColor |-> ThreatColor(content.complexity),
                       label |-> ThreatLabel(content.complexity),
                       metricsLines |-> content.lines,
                       testExists |->
                           ExistsSync(fsys, Parent(node.path) \o
                               <<TestFileName(node.path[Len(node.path)])>>),
                       isExternal |-> FALSE]]

(***************************************************************************)
(* generateUML: grouping and external stubs                                 *)
(***************************************************************************)

PackagePrefix == <<"p","a","c","k","a","g","e","_">>

\* packages.has(pkgPath)
HasPackage(pkgs, pkgPath) ==
    \E i \in 1..Len(pkgs) : pkgs[i].path = pkgPath

\* packages.get(pkgPath).classes.push(id)
PushClassId(pkgs, pkgPath, id) ==
    [i \in 1..Len(pkgs) |->
        IF pkgs[i].path = pkgPath
        THEN [pkgs[i] EXCEPT !.classes = Append(@, id)]
        ELSE pkgs[i]]

\* pkgPath.split('/').pop() || 'root'
PackageName(pkgPath) ==
    IF LastSegment(pkgPath) = <<>> THEN RootName ELSE LastSegment(pkgPath)

\* mutant: a package created for every record, without the lookup
GroupByPackageNoLookup(pkgs, classData, token) ==
    LET pkgPath == classData.package
        withPkg == Append(pkgs, [id |-> PackagePrefix \o token,
                                 name |-> PackageName(pkgPath),
                                 path |-> pkgPath,
                                 classes |-> <<>>])
    IN  PushClassId(withPkg, pkgPath, classData.id)

\* "Group by package": create the package on its first record, push the id
GroupByPackage(pkgs, classData, token) ==
    LET pkgPath == classData.package
        withPkg == IF ~HasPackage(pkgs, pkgPath)
                   THEN Append(pkgs, [id |-> PackagePrefix \o token,
                                      name |-> PackageName(pkgPath),
                                      path |-> pkgPath,
                                      classes |-> <<>>])
                   ELSE pkgs
    IN  PushClassId(withPkg, pkgPath, classData.id)

\* new Set(classes.map(c => c.name))
DefinedClasses(cls) == { cls[i].name : i \in 1..Len(cls) }

RECURSIVE AddExternalUnfiltered(_, _, _)
\* mutant: every referenced name added, defined or not
AddExternalUnfiltered(names, defined, acc) ==
    IF names = <<>> THEN acc
    ELSE IF ~Contains(acc, Head(names))
         THEN AddExternalUnfiltered(Tail(names), defined, Append(acc, Head(names)))
         ELSE AddExternalUnfiltered(Tail(names), defined, acc)

RECURSIVE AddExternalToArray(_, _, _)
\* mutant: externalClasses kept as an array, a name pushed at every reference
AddExternalToArray(names, defined, acc) ==
    IF names = <<>> THEN acc
    ELSE IF Head(names) \notin defined
         THEN AddExternalToArray(Tail(names), defined, Append(acc, Head(names)))
         ELSE AddExternalToArray(Tail(names), defined, acc)

RECURSIVE AddExternal(_, _, _)
\* forEach over one extends or implements list: externalClasses.add(name)
\* for every name definedClasses does not hold
AddExternal(names, defined, acc) ==
    IF names = <<>> THEN acc
    ELSE IF Head(names) \notin defined /\ ~Contains(acc, Head(names))
         THEN AddExternal(Tail(names), defined, Append(acc, Head(names)))
         ELSE AddExternal(Tail(names), defined, acc)

RECURSIVE CollectExternalExtendsOnly(_, _, _)
\* mutant: the implements lists not looked at
CollectExternalExtendsOnly(cls, defined, acc) ==
    IF cls = <<>> THEN acc
    ELSE CollectExternalExtendsOnly(Tail(cls), defined,
             AddExternal(Head(cls).extends, defined, acc))

RECURSIVE CollectExternal(_, _, _)
\* classes.forEach: extends first, then implements
CollectExternal(cls, defined, acc) ==
    IF cls = <<>> THEN acc
    ELSE CollectExternal(Tail(cls), defined,
             AddExternal(Head(cls).implements, defined,
                 AddExternal(Head(cls).extends, defined, acc)))

\* the stub record of one external class name
StubClass(className) ==
    [id |-> ExternalIdPrefix \o ToLowerCase(ReplaceDots(className)),
     name |-> className,
     package |-> ExternalPkgPath,
     filePath |-> ExternalPkgPath \o Slash \o className,
     methods |-> <<>>,
     fields |-> <<>>,
     dependencies |-> <<>>,
     extends |-> <<>>,
     implements |-> <<>>,
     complexity |-> 0,
     linesOfCode |-> StubLines,
     threatLevel |-> "EXTERNAL",
     threatColor |-> "gray",
     label |-> "External Library",
     metricsLines |-> StubLines,
     isExternal |-> TRUE]

\* "Create or get external package"
WithExternalPackage(pkgs) ==
    IF ~HasPackage(pkgs, ExternalPkgPath)
    THEN Append(pkgs, [id |-> ExternalPkgId, name |-> ExternalPkgName,
                       path |-> ExternalPkgPath, classes |-> <<>>])
    ELSE pkgs

RECURSIVE PushStubs(_, _)
\* externalClasses.forEach: push the stub, push its id to the external package
PushStubs(names, state) ==
    IF names = <<>> THEN state
    ELSE LET stubClass == StubClass(Head(names))
         IN  PushStubs(Tail(names),
                 [classes |-> Append(state.classes, stubClass),
                  packages |-> PushClassId(state.packages, ExternalPkgPath,
                                           stubClass.id)])

\* lines 939-995: nothing changes when no external class was found
WithStubs(cls, pkgs, external) ==
    IF Len(external) > 0
    THEN PushStubs(external, [classes |-> cls, packages |-> WithExternalPackage(pkgs)])
    ELSE [classes |-> cls, packages |-> pkgs]

(***************************************************************************)
(* State                                                                    *)
(***************************************************************************)

VARIABLES
    fs,               \* the file system under the project root
    includePatterns,  \* --include / options.includePatterns
    excludePatterns,  \* --exclude / options.excludePatterns
    pc,               \* where the running call stands
    files,            \* the result of findSourceFiles
    done,             \* how many entries of files the analysis loop has handled
    classes,          \* generateUML's classes array
    packages,         \* generateUML's packages Map, in insertion order
    externalClasses,  \* generateUML's externalClasses Set, in insertion order
    snapshot,         \* the value generateUML returned, <<>> before
    previous,         \* what an earlier call of generateUML returned, its
                      \* generated ids abstracted; <<>> before
    targetPath,       \* main: args[0]
    workingPath,      \* main: the local variable workingPath
    isTemp,           \* main: the local variable isTemp
    tempDir,          \* the directory below .swarmdesk-temp: "absent",
                      \* "present" or "removed"
    outputWrites,     \* the documents fs.writeFileSync(outputFile, ...) wrote
    exitCode,         \* <<>> while the process runs, then <<code>>
    gitReplies,       \* what the two git commands of getGitMetrics answer
    gitMetrics,       \* the value getGitMetrics returned, <<>> before
    projectPath,      \* TUI main: what selectProject returned, <<>> before
    continueAnalyzing, \* TUI main: the loop variable
    caught,           \* TUI main: the error the catch block holds, <<>> if none
    iteration,        \* how many iterations of the TUI loop have started
    lastMessage       \* the last line the TUI wrote about the session

\* the state of generateUML
umlVars == <<fs, includePatterns, excludePatterns, pc, files, done, classes,
             packages, externalClasses, snapshot>>

\* the state of the command line run around it
cliVars == <<targetPath, workingPath, isTemp, tempDir, outputWrites, exitCode>>

\* the state of one call of getGitMetrics
gitVars == <<gitReplies, gitMetrics>>

\* the state of the interactive session (tui.js)
tuiVars == <<projectPath, continueAnalyzing, caught, iteration, lastMessage>>

vars == <<umlVars, previous, cliVars, gitVars, tuiVars>>

\* no interactive session is in play
TuiIdle ==
    /\ projectPath = <<>>
    /\ continueAnalyzing = TRUE
    /\ caught = <<>>
    /\ iteration = 0
    /\ lastMessage = "none"

\* nothing of the command line run or of getGitMetrics is in play
Idle ==
    /\ previous = <<>>
    /\ targetPath = <<>>
    /\ workingPath = <<>>
    /\ isTemp = FALSE
    /\ tempDir = "absent"
    /\ outputWrites = <<>>
    /\ exitCode = <<>>
    /\ gitReplies = <<>>
    /\ gitMetrics = <<>>
    /\ TuiIdle

(***************************************************************************)
(* Bounds                                                                   *)
(***************************************************************************)

\* most regular files in a file system
MaxFiles == 4

\* most entries (files, directories, others) below the root, discovery runs
MaxEntries == 7

\* largest number of keyword matches in the text of an analyzed file
MaxComplexity == 17

\* most iterations of the loop of an interactive session
MaxIterations == 2

(***************************************************************************)
(* A direct call of findSourceFiles (as runAnalysis makes it)              *)
(***************************************************************************)

Plain == {<<TRUE, NoContent>>}

EitherReadable == {<<TRUE, NoContent>>, <<FALSE, NoContent>>}

DiscoveryCandidates ==
    << Cand(<<NmReadme>>, "file", Plain),
       Cand(<<NmDotJs>>, "file", Plain),
       Cand(<<NmSrcsJsx>>, "file", Plain),
       Cand(<<NmLinkTs>>, "other", Plain),
       Cand(<<NmSrc>>, "dir", EitherReadable),
       Cand(<<NmSrc, NmUtilTs>>, "file", Plain),
       Cand(<<NmSrc, NmLib>>, "dir", EitherReadable),
       Cand(<<NmSrc, NmLib, NmXMjs>>, "file", Plain),
       Cand(<<NmDist>>, "dir", EitherReadable),
       Cand(<<NmDist, NmBTs>>, "file", Plain) >>

DiscoveryFileSystems ==
    BuildFs(DiscoveryCandidates, Len(DiscoveryCandidates), MaxFiles, MaxEntries)

DiscoveryIncludes ==
    { <<>>, <<NmSrc>>, <<NmSrc \o Slash \o NmLib>>, <<NmLib, NmDist>> }

DiscoveryExcludes ==
    { <<>>, <<NmDist>>, <<<<"l","i">>>>, <<<<"c","/","l">>>>,
      <<<<"R","E","A","D">>, <<".","t","s">>>> }

InitDiscovery ==
    /\ fs \in DiscoveryFileSystems
    /\ includePatterns \in DiscoveryIncludes
    /\ excludePatterns \in DiscoveryExcludes
    /\ pc = "start"
    /\ files = <<>>
    /\ done = 0
    /\ classes = <<>>
    /\ packages = <<>>
    /\ externalClasses = <<>>
    /\ snapshot = <<>>
    /\ Idle

\* findSourceFiles(projectPath, includePatterns, excludePatterns) returns or throws
CallFindSourceFiles ==
    /\ pc = "start"
    /\ LET r == FindSourceFiles(fs, includePatterns, excludePatterns)
       IN  /\ pc' = IF r.threw THEN "threw" ELSE "returned"
           /\ files' = IF r.threw THEN <<>> ELSE r.files
    /\ UNCHANGED <<fs, includePatterns, excludePatterns, done, classes,
                   packages, externalClasses, snapshot>>
    /\ UNCHANGED <<previous, cliVars, gitVars>>
    /\ UNCHANGED tuiVars

NextDiscovery == CallFindSourceFiles

SpecDiscovery == InitDiscovery /\ [][NextDiscovery]_vars

(***************************************************************************)
(* Claims about discovery                                                   *)
(***************************************************************************)

\* the regular files of the file system
FileNodes == { n \in {fs[i] : i \in 1..Len(fs)} : n.kind = "file" }

FileName(path) == path[Len(path)]

\* the three conditions of the contract, stated on a path
Accepted(path) ==
    /\ ExtName(FileName(path)) \in
          { <<".","j","s">>, <<".","j","s","x">>, <<".","t","s">>,
            <<".","t","s","x">>, <<".","m","j","s">> }
    /\ \A i \in 1..Len(excludePatterns) :
          ~Includes(RelativePath(path), excludePatterns[i])
    /\ \/ includePatterns = <<>>
       \/ \E i \in 1..Len(includePatterns) :
             StartsWith(RelativePath(path), includePatterns[i])

SeqToSet(seq) == { seq[i] : i \in 1..Len(seq) }

NoDuplicates(seq) ==
    \A i, j \in 1..Len(seq) : i # j => seq[i] # seq[j]

\* C1: when findSourceFiles returns, its result holds, once each, exactly the
\* regular files under the root whose extension is a source extension, whose
\* relative path contains no exclude string and, unless the include list is
\* empty, starts with an include string.
C1_FindSourceFilesExact ==
    pc = "returned" =>
        /\ SeqToSet(files) = { n.path : n \in { m \in FileNodes : Accepted(m.path) } }
        /\ NoDuplicates(files)

\* a returned call that kept a file and left out an excluded file, a file
\* outside the include list and a file of another extension
C1_Witness ==
    /\ pc = "returned"
    /\ files # <<>>
    /\ includePatterns # <<>>
    /\ \E n \in FileNodes :
          /\ IsSourceExt(ExtName(FileName(n.path)))
          /\ IsExcluded(RelativePath(n.path), excludePatterns)
    /\ \E n \in FileNodes :
          /\ IsSourceExt(ExtName(FileName(n.path)))
          /\ ~IsExcluded(RelativePath(n.path), excludePatterns)
          /\ ~IsIncluded(RelativePath(n.path), includePatterns)
    /\ \E n \in FileNodes : ~IsSourceExt(ExtName(FileName(n.path)))

\* the directories walk reads: the root, and every directory whose own path
\* and whose ancestors' paths contain no exclude string and whose ancestors
\* could be read
Reached(path) ==
    \A k \in 1..Len(path) :
        /\ ~IsExcluded(RelativePath(SubSeq(path, 1, k)), excludePatterns)
        /\ \E i \in 1..Len(fs) :
              /\ fs[i].path = SubSeq(path, 1, k - 1)
              /\ fs[i].kind = "dir"
              /\ fs[i].readable

UnreadableReached ==
    { n \in {fs[i] : i \in 1..Len(fs)} :
        n.kind = "dir" /\ ~n.readable /\ Reached(n.path) }

\* C4: when a directory below the root that discovery reaches cannot be
\* read, findSourceFiles still returns, with the accepted files of the
\* directories it could read, and no error propagates.
C4_UnreadableDirSkipped ==
    (/\ pc # "start"
     /\ fs[1].readable
     /\ \E n \in UnreadableReached : n.path # <<>>) =>
        /\ pc = "returned"
        /\ SeqToSet(files) =
              { n.path : n \in { m \in FileNodes :
                                   Accepted(m.path) /\ Reached(m.path) } }

(***************************************************************************)
(* generateUML                                                              *)
(***************************************************************************)

\* values of Math.random().toString(36).substring(2, 9): nothing in the code
\* keeps two draws apart
RandomTokens == { <<"k","3","x">>, <<"q","7","m">> }

Readable(texts) == { <<TRUE, t>> : t \in texts }

Unreadable == {<<FALSE, NoContent>>}

PipelineCandidates ==
    << Cand(<<NmReadme>>, "file", Plain),
       Cand(<<NmIndexJs>>, "file",
            Readable({TextAExtendsFoo, TextFooExtendsUiBox, TextGarbage,
                      TextClassExpression})),
       Cand(<<NmSrc>>, "dir", Plain),
       Cand(<<NmSrc, NmUtilTs>>, "file",
            Readable({TextAExtendsFoo, TextBExtendsLowerFoo, TextTwoClasses,
                      TextEmptyExtends}) \cup Unreadable),
       Cand(<<NmSrc, NmFooTsx>>, "file",
            Readable({TextBExtendsLowerFoo, TextFooExtendsUiBox, TextTwoClasses,
                      TextGarbage})),
       Cand(<<NmNodeModules>>, "dir", EitherReadable),
       Cand(<<NmNodeModules, NmMJs>>, "file",
            Readable({TextFooExtendsUiBox, TextEmptyExtends})) >>

PipelineFileSystems ==
    { f \in BuildFs(PipelineCandidates, Len(PipelineCandidates), MaxFiles,
                    Len(PipelineCandidates)) : f[1].readable }

\* <<include list, exclude list>>
PipelinePatterns ==
    { <<<<>>, <<>>>>,
      <<<<NmSrc>>, <<NmNodeModules>>>>,
      <<<<>>, <<NmNodeModules, <<"F","o","o",".">>>>>> }

Init ==
    /\ fs \in PipelineFileSystems
    /\ \E p \in PipelinePatterns :
          /\ includePatterns = p[1]
          /\ excludePatterns = p[2]
    /\ pc = "start"
    /\ files = <<>>
    /\ done = 0
    /\ classes = <<>>
    /\ packages = <<>>
    /\ externalClasses = <<>>
    /\ snapshot = <<>>
    /\ Idle

\* the node of the file system at a path
NodeAt(fsys, path) ==
    fsys[CHOOSE i \in 1..Len(fsys) : fsys[i].path = path]

\* line 885: findSourceFiles; its exception leaves generateUML
Discover ==
    /\ pc = "start"
    /\ LET r == FindSourceFiles(fs, includePatterns, excludePatterns)
       IN  /\ pc' = IF r.threw THEN "threw" ELSE "analyze"
           /\ files' = IF r.threw THEN <<>> ELSE r.files
    /\ UNCHANGED <<fs, includePatterns, excludePatterns, done, classes,
                   packages, externalClasses, snapshot>>
    /\ UNCHANGED <<previous, cliVars, gitVars>>
    /\ UNCHANGED tuiVars

\* mutant: the loop body without its try/catch
AnalyzeNextNoCatch ==
    /\ pc = "analyze"
    /\ done < Len(files)
    /\ \E classToken \in RandomTokens, packageToken \in RandomTokens :
          LET r == AnalyzeFile(fs, NodeAt(fs, files[done + 1]), classToken)
          IN  IF r.threw
              THEN /\ pc' = "threw"
                   /\ UNCHANGED <<classes, packages>>
              ELSE /\ classes' = Append(classes, r.rec)
                   /\ packages' = GroupByPackage(packages, r.rec, packageToken)
                   /\ pc' = pc
    /\ done' = done + 1
    /\ UNCHANGED <<fs, includePatterns, excludePatterns, files,
                   externalClasses, snapshot>>
    /\ UNCHANGED <<previous, cliVars, gitVars>>
    /\ UNCHANGED tuiVars

\* lines 892-911: one iteration of the loop over files, the catch included
AnalyzeNext ==
    /\ pc = "analyze"
    /\ done < Len(files)
    /\ \E classToken \in RandomTokens, packageToken \in RandomTokens :
          LET r == AnalyzeFile(fs, NodeAt(fs, files[done + 1]), classToken)
          IN  IF r.threw
              THEN UNCHANGED <<classes, packages>>
              ELSE /\ classes' = Append(classes, r.rec)
                   /\ packages' = GroupByPackage(packages, r.rec, packageToken)
    /\ done' = done + 1
    /\ UNCHANGED <<fs, includePatterns, excludePatterns, pc, files,
                   externalClasses, snapshot>>
    /\ UNCHANGED <<previous, cliVars, gitVars>>
    /\ UNCHANGED tuiVars

\* mutant: the external names visited in any order (a set whose iteration
\* order is not the insertion order)
CreateStubsUnordered ==
    /\ pc = "analyze"
    /\ done = Len(files)
    /\ LET collected == CollectExternal(classes, DefinedClasses(classes), <<>>)
       IN  \E external \in { s \in [1..Len(collected) -> SeqToSet(collected)] :
                                SeqToSet(s) = SeqToSet(collected) } :
               LET out == WithStubs(classes, packages, external)
               IN  /\ externalClasses' = external
                   /\ classes' = out.classes
                   /\ packages' = out.packages
    /\ pc' = "assemble"
    /\ UNCHANGED <<fs, includePatterns, excludePatterns, files, done, snapshot>>
    /\ UNCHANGED <<previous, cliVars, gitVars>>
    /\ UNCHANGED tuiVars

\* lines 913-995: the external classes and their stubs
CreateStubs ==
    /\ pc = "analyze"
    /\ done = Len(files)
    /\ LET external == CollectExternal(classes, DefinedClasses(classes), <<>>)
           out == WithStubs(classes, packages, external)
       IN  /\ externalClasses' = external
           /\ classes' = out.classes
           /\ packages' = out.packages
    /\ pc' = "assemble"
    /\ UNCHANGED <<fs, includePatterns, excludePatterns, files, done, snapshot>>
    /\ UNCHANGED <<previous, cliVars, gitVars>>
    /\ UNCHANGED tuiVars

\* lines 1013-1025: the returned document
ReturnSnapshot ==
    /\ pc = "assemble"
    /\ snapshot' = <<[version |-> "6.0", packages |-> packages, classes |-> classes]>>
    /\ pc' = "done"
    /\ UNCHANGED <<fs, includePatterns, excludePatterns, files, done, classes,
                   packages, externalClasses>>
    /\ UNCHANGED <<previous, cliVars, gitVars>>
    /\ UNCHANGED tuiVars

Next ==
    \/ Discover
    \/ AnalyzeNext
    \/ CreateStubs
    \/ ReturnSnapshot

Spec == Init /\ [][Next]_vars

(***************************************************************************)
(* generateUML on trees that hold a directory named external               *)
(***************************************************************************)

ExternalDirCandidates ==
    << Cand(<<NmIndexJs>>, "file",
            Readable({TextAExtendsFoo, TextFooExtendsUiBox, TextGarbage})),
       Cand(<<NmExternal>>, "dir", Plain),
       Cand(<<NmExternal, NmBTs>>, "file",
            Readable({TextBExtendsLowerFoo, TextTwoClasses, TextGarbage})),
       Cand(<<NmSrc>>, "dir", Plain),
       Cand(<<NmSrc, NmUtilTs>>, "file",
            Readable({TextAExtendsFoo, TextGarbage}) \cup Unreadable) >>

ExternalDirFileSystems ==
    { f \in BuildFs(ExternalDirCandidates, Len(ExternalDirCandidates), MaxFiles,
                    Len(ExternalDirCandidates)) : f[1].readable }

InitExternalDir ==
    /\ fs \in ExternalDirFileSystems
    /\ includePatterns = <<>>
    /\ excludePatterns = <<>>
    /\ pc = "start"
    /\ files = <<>>
    /\ done = 0
    /\ classes = <<>>
    /\ packages = <<>>
    /\ externalClasses = <<>>
    /\ snapshot = <<>>
    /\ Idle

SpecExternalDir == InitExternalDir /\ [][Next]_vars

(***************************************************************************)
(* generateUML called a second time on the same tree with the same lists   *)
(***************************************************************************)

\* an id without what Math.random put into it
AbstractId(id) ==
    IF StartsWith(id, ComponentPrefix) THEN ComponentPrefix
    ELSE IF StartsWith(id, PackagePrefix) /\ id # ExternalPkgId THEN PackagePrefix
    ELSE id

\* a returned document without its generated ids (the model has no timestamp)
Abstract(doc) ==
    [version |-> doc.version,
     packages |-> [i \in 1..Len(doc.packages) |->
                     [id |-> AbstractId(doc.packages[i].id),
                      name |-> doc.packages[i].name,
                      path |-> doc.packages[i].path,
                      classes |-> [j \in 1..Len(doc.packages[i].classes) |->
                                     AbstractId(doc.packages[i].classes[j])]]],
     classes |-> [i \in 1..Len(doc.classes) |->
                    [doc.classes[i] EXCEPT !.id = AbstractId(@)]]]

\* the caller keeps the first document and calls generateUML again; the
\* locals of the call (files, classes, packages, externalClasses) are new
RunAgain ==
    /\ pc = "done"
    /\ previous = <<>>
    /\ previous' = <<Abstract(snapshot[1])>>
    /\ pc' = "start"
    /\ files' = <<>>
    /\ done' = 0
    /\ classes' = <<>>
    /\ packages' = <<>>
    /\ externalClasses' = <<>>
    /\ snapshot' = <<>>
    /\ UNCHANGED <<fs, includePatterns, excludePatterns, cliVars, gitVars>>
    /\ UNCHANGED tuiVars

NextTwice ==
    \/ Discover
    \/ AnalyzeNext
    \/ CreateStubs
    \/ ReturnSnapshot
    \/ RunAgain

SpecTwice == Init /\ [][NextTwice]_vars

(***************************************************************************)
(* Claims about generateUML                                                 *)
(***************************************************************************)

\* the records of a class sequence that analyzeFile made, and the stubs
RealRecords(cls) == SelectSeq(cls, LAMBDA r : ~r.isExternal)

StubRecords(cls) == SelectSeq(cls, LAMBDA r : r.isExternal)

\* the names some real record extends or implements
Referenced(cls) ==
    UNION { SeqToSet(r.extends) \cup SeqToSet(r.implements) :
              r \in SeqToSet(RealRecords(cls)) }

RealNames(cls) == { r.name : r \in SeqToSet(RealRecords(cls)) }

\* analyzeFile throws on the file at this path
Throws(path) == AnalyzeFile(fs, NodeAt(fs, path), <<>>).threw

Returned == pc = "done"

\* some exclude string occurs in the relative path
MatchesExclude(path) ==
    \E i \in 1..Len(excludePatterns) :
        Includes(RelativePath(path), excludePatterns[i])

\* C2: in the returned snapshot no record made by analyzeFile has the
\* filePath of a file whose relative path contains an exclude string (the
\* files below an excluded directory are such files); and an excluded
\* directory is never read: generateUML fails on an unreadable directory
\* only if the path of one contains no exclude string.
C2_ExcludedFilesHaveNoRecord ==
    /\ Returned =>
          \A n \in FileNodes :
              MatchesExclude(n.path) =>
                  \A r \in SeqToSet(RealRecords(snapshot[1].classes)) :
                      r.filePath # RelativePath(n.path)
    /\ pc = "threw" =>
          \E i \in 1..Len(fs) :
              /\ fs[i].kind = "dir"
              /\ ~fs[i].readable
              /\ ~MatchesExclude(fs[i].path)

\* a returned snapshot with a record, of a tree holding a source file excluded
\* by its own name and a source file below an excluded directory that cannot
\* be read
C2_Witness ==
    /\ Returned
    /\ RealRecords(snapshot[1].classes) # <<>>
    /\ \E n \in FileNodes :
          /\ Len(n.path) = 2
          /\ MatchesExclude(n.path)
          /\ ~MatchesExclude(Parent(n.path))
    /\ \E n \in FileNodes :
          /\ Len(n.path) = 2
          /\ MatchesExclude(Parent(n.path))
          /\ ~NodeAt(fs, Parent(n.path)).readable
          /\ IsSourceExt(ExtName(FileName(n.path)))

\* the ids of the records of a package, in the order of the class sequence
IdsOfPackage(cls, pkgPath) ==
    LET members == SelectSeq(cls, LAMBDA r : r.package = pkgPath)
    IN  [i \in 1..Len(members) |-> members[i].id]

\* C3: whatever files analyzeFile throws on, generateUML goes on to return
\* (once discovery has returned the call never throws, and the loop never
\* runs past the discovered files); in the snapshot the records made by
\* analyzeFile are, in order, one per discovered file it did not throw on,
\* the packages list exactly the ids of the records, and the stubs are those
\* of the names these records reference and do not define.
C3_PartialFailureTolerated ==
    /\ (pc # "start" /\ UnreadableReached = {}) =>
          /\ pc \in {"analyze", "assemble", "done"}
          /\ done <= Len(files)
          /\ (pc # "analyze" => done = Len(files))
    /\ Returned =>
          LET cls == snapshot[1].classes
              real == RealRecords(cls)
              good == SelectSeq(files, LAMBDA f : ~Throws(f))
          IN  /\ Len(real) = Len(good)
              /\ \A i \in 1..Len(good) : real[i].filePath = RelativePath(good[i])
              /\ \A i \in 1..Len(snapshot[1].packages) :
                    snapshot[1].packages[i].classes =
                        IdsOfPackage(cls, snapshot[1].packages[i].path)
              /\ \A r \in SeqToSet(cls) :
                    \E i \in 1..Len(snapshot[1].packages) :
                        snapshot[1].packages[i].path = r.package
              /\ { r.name : r \in SeqToSet(StubRecords(cls)) } =
                    Referenced(cls) \ RealNames(cls)

\* a returned snapshot after analyzeFile threw on an unreadable file and on
\* a file the parser throws on, with a record and a stub from the others
C3_Witness ==
    /\ Returned
    /\ \E f \in SeqToSet(files) : ~NodeAt(fs, f).readable
    /\ \E f \in SeqToSet(files) : NodeAt(fs, f).readable /\ Throws(f)
    /\ RealRecords(snapshot[1].classes) # <<>>
    /\ StubRecords(snapshot[1].classes) # <<>>

\* a file that can be read and whose text is malformed, or is not
IsMalformed(path) ==
    NodeAt(fs, path).readable /\ NodeAt(fs, path).content \in MalformedTexts

IsValid(path) ==
    NodeAt(fs, path).readable /\ NodeAt(fs, path).content \notin MalformedTexts

\* discovery found one malformed file and two valid files
OneMalformedTwoValid ==
    /\ Len(files) = 3
    /\ Cardinality({i \in 1..3 : IsMalformed(files[i])}) = 1
    /\ Cardinality({i \in 1..3 : IsValid(files[i])}) = 2

\* the number of records made by analyzeFile with the filePath of a file
RecordsOf(cls, path) ==
    Len(SelectSeq(RealRecords(cls), LAMBDA r : r.filePath = RelativePath(path)))

\* some named class declaration of the text has an extends clause naming no type
HasEmptyExtendsList(content) ==
    \E i \in 1..Len(content.ast) :
        /\ content.ast[i].kind = "class"
        /\ content.ast[i].name # <<>>
        /\ \E j \in 1..Len(content.ast[i].heritage) :
              /\ content.ast[i].heritage[j].token = "extends"
              /\ content.ast[i].heritage[j].types = <<>>

C6_StubNamesNotDefined ==
    Returned =>
        \A s \in SeqToSet(StubRecords(snapshot[1].classes)) :
            \A r \in SeqToSet(RealRecords(snapshot[1].classes)) :
                s.name # r.name

\* a returned snapshot with a stub, where a record references the name of
\* another record
C6_Witness ==
    /\ Returned
    /\ StubRecords(snapshot[1].classes) # <<>>
    /\ Referenced(snapshot[1].classes) \cap RealNames(snapshot[1].classes) # {}

\* how often a name is referenced by the records made by analyzeFile
References(cls, name) ==
    LET real == RealRecords(cls)
    IN  Cardinality({ <<i, j>> \in (1..Len(real)) \X (1..2) :
                        /\ j = 1 => name \in SeqToSet(real[i].extends)
                        /\ j = 2 => name \in SeqToSet(real[i].implements) })

\* C7: the stubs of the returned snapshot are exactly one per name that a
\* record references in extends or implements and that no record made by
\* analyzeFile has, and every stub has isExternal, no methods, fields,
\* dependencies, extends or implements, 75 lines, threat level EXTERNAL and
\* package "external".
C7_OneStubPerExternalName ==
    Returned =>
        LET cls == snapshot[1].classes
            stubs == StubRecords(cls)
            external == Referenced(cls) \ RealNames(cls)
        IN  /\ \A n \in external :
                  Cardinality({i \in 1..Len(stubs) : stubs[i].name = n}) = 1
            /\ \A i \in 1..Len(stubs) :
                  /\ stubs[i].name \in external
                  /\ stubs[i].isExternal
                  /\ stubs[i].methods = <<>>
                  /\ stubs[i].fields = <<>>
                  /\ stubs[i].dependencies = <<>>
                  /\ stubs[i].extends = <<>>
                  /\ stubs[i].implements = <<>>
                  /\ stubs[i].linesOfCode = 75
                  /\ stubs[i].metricsLines = 75
                  /\ stubs[i].threatLevel = "EXTERNAL"
                  /\ stubs[i].package = <<"e","x","t","e","r","n","a","l">>

\* a returned snapshot with the stub of a name referenced more than once
C7_Witness ==
    /\ Returned
    /\ \E s \in SeqToSet(StubRecords(snapshot[1].classes)) :
          References(snapshot[1].classes, s.name) >= 2

\* the names of the class and interface declarations of a text
DeclaredNames(content) ==
    { content.ast[i].name[1] :
        i \in { k \in 1..Len(content.ast) : content.ast[k].name # <<>> } }

\* C8: no stub of the returned snapshot has a name that a class or interface
\* declaration of a successfully analyzed file has.
C8_NoStubForDeclaredName ==
    Returned =>
        \A s \in SeqToSet(StubRecords(snapshot[1].classes)) :
            \A f \in SeqToSet(files) :
                ~Throws(f) => s.name \notin DeclaredNames(NodeAt(fs, f).content)

\* C9: every entry of every package's classes list in the returned snapshot
\* is the id of exactly one record, and that record's package is the
\* package's path.
C9_PackageEntriesResolve ==
    Returned =>
        LET cls == snapshot[1].classes
            pkgs == snapshot[1].packages
        IN  \A p \in 1..Len(pkgs) :
                \A e \in 1..Len(pkgs[p].classes) :
                    LET hits == {i \in 1..Len(cls) : cls[i].id = pkgs[p].classes[e]}
                    IN  /\ Cardinality(hits) = 1
                        /\ \A i \in hits : cls[i].package = pkgs[p].path

\* C10: the ids of the records of the returned snapshot are pairwise distinct.
C10_IdsDistinct ==
    Returned =>
        \A i, j \in 1..Len(snapshot[1].classes) :
            i # j => snapshot[1].classes[i].id # snapshot[1].classes[j].id

\* the packages of a document with the path "external"
ExternalPackages(doc) ==
    { i \in 1..Len(doc.packages) : doc.packages[i].path = ExternalPkgPath }

\* C12: in the returned snapshot at most one package has the path
\* "external"; when there is a stub, there is one, its name is "External
\* Libraries", it lists the id of every stub and no other package lists the
\* id of a stub; when there is no stub, no package is the one the stub step
\* creates (id package_external, name "External Libraries").
C12_OneExternalLibrariesPackage ==
    Returned =>
        LET doc == snapshot[1]
            stubs == StubRecords(doc.classes)
        IN  /\ Cardinality(ExternalPackages(doc)) <= 1
            /\ stubs # <<>> =>
                  /\ \E i \in ExternalPackages(doc) :
                        /\ doc.packages[i].name = ExternalPkgName
                        /\ \A k \in 1..Len(stubs) :
                              Contains(doc.packages[i].classes, stubs[k].id)
                  /\ \A i \in 1..Len(doc.packages) :
                        i \notin ExternalPackages(doc) =>
                            \A k \in 1..Len(stubs) :
                                ~Contains(doc.packages[i].classes, stubs[k].id)
            /\ stubs = <<>> =>
                  \A i \in 1..Len(doc.packages) :
                      /\ doc.packages[i].id # ExternalPkgId
                      /\ doc.packages[i].name # ExternalPkgName

\* C13: in the returned snapshot the record of a file directly in the
\* project root has package "root" and its package record has name "root";
\* the record of any other file has as package the containing directory
\* relative to the root, and its package record has as name the last
\* segment of that path.
C13_RootPackageNamedRoot ==
    Returned =>
        \A f \in SeqToSet(files) :
            \A r \in SeqToSet(RealRecords(snapshot[1].classes)) :
                r.filePath = RelativePath(f) =>
                    LET dir == Parent(f)
                    IN  /\ r.package = IF dir = <<>> THEN RootName
                                       ELSE RelativePath(dir)
                        /\ \A i \in 1..Len(snapshot[1].packages) :
                              snapshot[1].packages[i].path = r.package =>
                                  snapshot[1].packages[i].name =
                                      IF dir = <<>> THEN RootName
                                      ELSE dir[Len(dir)]

\* the position of the first record of a class sequence with a package
FirstOfPackage(cls, pkgPath) ==
    CHOOSE i \in 1..Len(cls) :
        /\ cls[i].package = pkgPath
        /\ \A j \in 1..(i - 1) : cls[j].package # pkgPath

RECURSIVE TotalEntries(_)
\* the lengths of the classes lists of a package sequence, summed
TotalEntries(pkgs) ==
    IF pkgs = <<>> THEN 0
    ELSE Len(Head(pkgs).classes) + TotalEntries(Tail(pkgs))

\* C19: at every point of the loop over the discovered files (before the
\* first iteration, after each iteration, whatever files analyzeFile threw
\* on) the package map holds one package per package value of the records
\* pushed so far and no other, the packages stand in the order of the first
\* record of each, each classes list is the ids of the records of the
\* package in the order they were pushed, no classes list is empty, and the
\* lengths of the classes lists sum to the number of records.
C19_PackageMapFollowsRecords ==
    pc = "analyze" =>
        /\ \A i, j \in 1..Len(packages) :
              i # j => packages[i].path # packages[j].path
        /\ { packages[i].path : i \in 1..Len(packages) } =
              { classes[k].package : k \in 1..Len(classes) }
        /\ \A i, j \in 1..Len(packages) :
              i < j => FirstOfPackage(classes, packages[i].path) <
                           FirstOfPackage(classes, packages[j].path)
        /\ \A i \in 1..Len(packages) :
              /\ packages[i].classes = IdsOfPackage(classes, packages[i].path)
              /\ packages[i].classes # <<>>
        /\ TotalEntries(packages) = Len(classes)
        /\ Len(classes) <= done

\* the loop has handled every file: analyzeFile threw on one, two packages
\* exist and one of them holds two records
C19_Witness ==
    /\ pc = "analyze"
    /\ done = Len(files)
    /\ Len(classes) < done
    /\ Len(packages) >= 2
    /\ \E i \in 1..Len(packages) : Len(packages[i].classes) >= 2

\* C20: in the returned snapshot every name in the extends or implements of
\* a record is the name of a record of the snapshot, and no stub stands
\* before a record made by analyzeFile.
C20_ReferencesClosedStubsLast ==
    Returned =>
        LET cls == snapshot[1].classes
        IN  /\ \A i \in 1..Len(cls) :
                  \A n \in SeqToSet(cls[i].extends) \cup SeqToSet(cls[i].implements) :
                      \E k \in 1..Len(cls) : cls[k].name = n
            /\ \A i, j \in 1..Len(cls) :
                  (cls[i].isExternal /\ ~cls[j].isExternal) => j < i

\* a returned snapshot where a record extends a name and implements another
\* name that only stubs have, and a record references the name of a record
\* made by analyzeFile
C20_Witness ==
    /\ Returned
    /\ LET cls == snapshot[1].classes
       IN  /\ \E i \in 1..Len(cls) :
                 /\ \E n \in SeqToSet(cls[i].extends) : n \notin RealNames(cls)
                 /\ \E n \in SeqToSet(cls[i].implements) : n \notin RealNames(cls)
           /\ Referenced(cls) \cap RealNames(cls) # {}

(***************************************************************************)
(* Claims about two calls of generateUML                                    *)
(***************************************************************************)

AnalyzeCandidates ==
    << Cand(<<NmIndexJs>>, "file", Plain),
       Cand(<<NmIndexTestJs>>, "file", Plain),
       Cand(<<NmXMjs>>, "file", Plain),
       Cand(<<NmXTestMjs>>, "file", Plain),
       Cand(<<NmSrc>>, "dir", Plain),
       Cand(<<NmSrc, NmUtilTs>>, "file", Plain),
       Cand(<<NmSrc, NmUtilTestTs>>, "file", Plain),
       Cand(<<NmSrc, NmUtilTestts>>, "file", Plain) >>

AnalyzeFileSystems ==
    { f \in BuildFs(AnalyzeCandidates, Len(AnalyzeCandidates), MaxFiles,
                    MaxEntries) : f[1].readable }

\* the text of the analyzed file: one with every number of keyword matches,
\* one the parser throws on, or none because the file cannot be read
AnalyzedTexts ==
    Readable({ [TextGarbage EXCEPT !.complexity = c] : c \in 0..MaxComplexity })
        \cup Readable({TextEmptyExtends}) \cup Unreadable

\* files holds the one path analyzeFile is called with
InitAnalyze ==
    /\ \E base \in AnalyzeFileSystems, text \in AnalyzedTexts :
          \E i \in 1..Len(base) :
              /\ base[i].kind = "file"
              /\ IsSourceExt(ExtName(FileName(base[i].path)))
              /\ fs = [base EXCEPT ![i].readable = text[1],
                                   ![i].content = text[2]]
              /\ files = <<base[i].path>>
    /\ includePatterns = <<>>
    /\ excludePatterns = <<>>
    /\ pc = "start"
    /\ done = 0
    /\ classes = <<>>
    /\ packages = <<>>
    /\ externalClasses = <<>>
    /\ snapshot = <<>>
    /\ Idle

\* analyzeFile(filePath, projectRoot) returns its record or throws
CallAnalyzeFile ==
    /\ pc = "start"
    /\ \E token \in RandomTokens :
          LET r == AnalyzeFile(fs, NodeAt(fs, files[1]), token)
          IN  IF r.threw
              THEN /\ pc' = "threw"
                   /\ UNCHANGED classes
              ELSE /\ pc' = "returned"
                   /\ classes' = <<r.rec>>
    /\ UNCHANGED <<fs, includePatterns, excludePatterns, files, done, packages,
                   externalClasses, snapshot>>
    /\ UNCHANGED <<previous, cliVars, gitVars>>
    /\ UNCHANGED tuiVars

NextAnalyze == CallAnalyzeFile

SpecAnalyze == InitAnalyze /\ [][NextAnalyze]_vars

(***************************************************************************)
(* Claims about analyzeFile                                                 *)
(***************************************************************************)

\* the name X.test.<ext> of the test file of an entry name X.<ext>
TestSiblingName(name) ==
    BaseName(name, ExtName(name)) \o DotTest \o ExtName(name)

\* C14: for a source file X.<ext> (ext one of js, jsx, ts, tsx, mjs) the
\* record analyzeFile returns has testMetrics.exists true if and only if a
\* file X.test.<ext> exists in the same directory.
C14_TestExistsIffSibling ==
    (pc = "returned" /\ IsSourceExt(ExtName(FileName(files[1])))) =>
        (classes[1].testExists <=>
            \E n \in FileNodes :
                n.path = Parent(files[1]) \o
                             <<TestSiblingName(FileName(files[1]))>>)

\* the band of a complexity value, the boundary values in the lower band
Band(c) ==
    IF c <= 5 THEN 1 ELSE IF c <= 10 THEN 2 ELSE IF c <= 15 THEN 3 ELSE 4

BandLabels == <<"LOW", "MODERATE", "HIGH", "CRITICAL">>

BandColors == <<"green", "yellow", "orange", "red">>

\* C15: the record analyzeFile returns for a text with c keyword matches
\* has complexity c, and threatLevel, label and threatColor of the band of
\* c: LOW/green up to 5, MODERATE/yellow up to 10, HIGH/orange up to 15,
\* CRITICAL/red above.
C15_ThreatBands ==
    pc = "returned" =>
        LET c == NodeAt(fs, files[1]).content.complexity
            r == classes[1]
        IN  /\ r.complexity = c
            /\ ~r.isExternal
            /\ r.threatLevel = BandLabels[Band(c)]
            /\ r.label = BandLabels[Band(c)]
            /\ r.threatColor = BandColors[Band(c)]

\* a record for a text with 15 keyword matches, in the band HIGH
C15_Witness ==
    /\ pc = "returned"
    /\ classes[1].complexity = 15
    /\ classes[1].threatLevel = "HIGH"
    /\ classes[1].threatColor = "orange"

(***************************************************************************)
(* getGitMetrics                                                            *)
(***************************************************************************)

WhiteSpace == {" ", "\n", "\t"}

RECURSIVE TrimStart(_)
TrimStart(s) ==
    IF s # <<>> /\ Head(s) \in WhiteSpace THEN TrimStart(Tail(s)) ELSE s

RECURSIVE TrimEnd(_)
TrimEnd(s) ==
    IF s # <<>> /\ s[Len(s)] \in WhiteSpace
    THEN TrimEnd(SubSeq(s, 1, Len(s) - 1))
    ELSE s

\* String.prototype.trim
Trim(s) == TrimEnd(TrimStart(s))

RECURSIVE Split(_, _, _)
\* String.prototype.split on a one-character separator; cur is the field
\* being read
Split(s, sep, cur) ==
    IF s = <<>> THEN <<cur>>
    ELSE IF Head(s) = sep THEN <<cur>> \o Split(Tail(s), sep, <<>>)
    ELSE Split(Tail(s), sep, Append(cur, Head(s)))

Digits == <<"0","1","2","3","4","5","6","7","8","9">>

IsDigit(c) == \E d \in 1..Len(Digits) : Digits[d] = c

DigitValue(c) == (CHOOSE d \in 1..Len(Digits) : Digits[d] = c) - 1

RECURSIVE LeadingNumber(_, _)
LeadingNumber(s, acc) ==
    IF s # <<>> /\ IsDigit(Head(s))
    THEN LeadingNumber(Tail(s), 10 * acc + DigitValue(Head(s)))
    ELSE acc

\* parseInt on a string without sign: <<>> for NaN, else <<n>>
ParseInt(s) ==
    LET t == TrimStart(s)
    IN  IF t # <<>> /\ IsDigit(Head(t)) THEN <<LeadingNumber(t, 0)>> ELSE <<>>

\* the %ai texts new Date() can parse, with the day each stands for; any
\* other text gives an Invalid Date
DateTexts == { <<"d","1">>, <<"d","3">> }

DayOf(text) == IF text = <<"d","1">> THEN 1 ELSE 3

\* new Date(date): <<>> for an Invalid Date, else <<day>>; date is <<>>
\* when the output had fewer than four fields (undefined)
NewDate(date) ==
    IF date # <<>> /\ date[1] \in DateTexts THEN <<DayOf(date[1])>> ELSE <<>>

\* commitDate.toISOString() of a valid date
ToISOString(day) == <<"D", Digits[day + 1]>>

\* an answer of execSync: the command failed, or its output
Failed == [failed |-> TRUE]

Output(text) == [failed |-> FALSE, out |-> text]

\* lines 649-653
DefaultGitMetrics ==
    [commitCount |-> 0, lastCommit |-> <<>>, isGitTracked |-> FALSE]

\* the i-th element of the destructured split, <<>> when undefined
Field(parts, i) == IF i <= Len(parts) THEN <<parts[i]>> ELSE <<>>

\* lines 612-644, the try block: it throws, returns a value, or ends
GitTryBlock(replies, now) ==
    IF replies.count.failed \/ replies.last.failed
    THEN [outcome |-> "throw"]
    ELSE LET commitCount == Trim(replies.count.out)
             lastCommitInfo == Trim(replies.last.out)
             parts == Split(lastCommitInfo, "|", <<>>)
             hash == parts[1]
             author == Field(parts, 2)
             email == Field(parts, 3)
             date == Field(parts, 4)
             message == Field(parts, 5)
             commitDate == NewDate(date)
             parsed == ParseInt(commitCount)
         IN  IF lastCommitInfo = <<>> THEN [outcome |-> "end"]
             ELSE IF commitDate = <<>> THEN [outcome |-> "throw"]
             ELSE [outcome |-> "return",
                   value |->
                     [commitCount |-> IF parsed = <<>> THEN 0 ELSE parsed[1],
                      lastCommit |->
                        <<[hash |-> SubSeq(hash, 1, IF Len(hash) < 7 THEN Len(hash) ELSE 7),
                           author |-> author,
                           email |-> email,
                           date |-> ToISOString(commitDate[1]),
                           message |-> IF message = <<>> THEN <<>> ELSE message[1],
                           daysAgo |-> now - commitDate[1]]>>,
                      isGitTracked |-> TRUE]]

\* mutant: the function without its try/catch
GetGitMetricsNoCatch(replies, now) ==
    LET try == GitTryBlock(replies, now)
    IN  IF try.outcome = "throw" THEN [threw |-> TRUE]
        ELSE IF try.outcome = "return" THEN [threw |-> FALSE, value |-> try.value]
        ELSE [threw |-> FALSE, value |-> DefaultGitMetrics]

\* getGitMetrics(filePath, projectRoot): the catch block is empty, and what
\* leaves the try block without a return reaches lines 649-653
GetGitMetrics(replies, now) ==
    LET try == GitTryBlock(replies, now)
    IN  IF try.outcome = "return" THEN [threw |-> FALSE, value |-> try.value]
        ELSE [threw |-> FALSE, value |-> DefaultGitMetrics]

\* what `git log --oneline -- file | wc -l` prints
CountOutputs ==
    { <<"0","\n">>, <<" "," ","3","\n">>, <<"1","2","\n">>, <<"\n">> }

\* what `git log -1 --format="%H|%an|%ae|%ai|%s" -- file` prints: nothing
\* for a file without commits, else the five fields (an author name or a
\* subject may hold a "|")
LastCommitOutputs ==
    { <<>>, <<"\n">> } \cup
    { Join(<<hash, author, <<"a","@","b">>, date, subject>>, <<"|">>) \o <<"\n">> :
         hash \in { <<"0","1","2","3","4","5","6","7","8","9">>, <<"a","b","c">> },
         author \in { <<"a","n","n">>, <<"a","|","b">> },
         date \in DateTexts \cup { <<"z","z">> },
         subject \in { <<>>, <<"f","i","x">>, <<"a","|","b">> } }

\* Date.now() as a day number
Clock == {3, 4}

InitGit ==
    /\ gitReplies \in
          [count : {Failed} \cup { Output(t) : t \in CountOutputs },
           last : {Failed} \cup { Output(t) : t \in LastCommitOutputs }]
    /\ gitMetrics = <<>>
    /\ fs = <<Node(<<>>, "dir", TRUE, NoContent)>>
    /\ includePatterns = <<>>
    /\ excludePatterns = <<>>
    /\ pc = "start"
    /\ files = <<>>
    /\ done = 0
    /\ classes = <<>>
    /\ packages = <<>>
    /\ externalClasses = <<>>
    /\ snapshot = <<>>
    /\ previous = <<>>
    /\ targetPath = <<>>
    /\ workingPath = <<>>
    /\ isTemp = FALSE
    /\ tempDir = "absent"
    /\ outputWrites = <<>>
    /\ exitCode = <<>>
    /\ TuiIdle

\* getGitMetrics returns or throws
CallGetGitMetrics ==
    /\ pc = "start"
    /\ \E now \in Clock :
          LET r == GetGitMetrics(gitReplies, now)
          IN  IF r.threw
              THEN /\ pc' = "threw"
                   /\ UNCHANGED gitMetrics
              ELSE /\ pc' = "returned"
                   /\ gitMetrics' = <<r.value>>
    /\ UNCHANGED <<fs, includePatterns, excludePatterns, files, done, classes,
                   packages, externalClasses, snapshot>>
    /\ UNCHANGED <<previous, cliVars, gitReplies>>
    /\ UNCHANGED tuiVars

NextGit == CallGetGitMetrics

SpecGit == InitGit /\ [][NextGit]_vars

(***************************************************************************)
(* Claims about getGitMetrics                                               *)
(***************************************************************************)

\* C16: getGitMetrics never throws; when a git command failed or the
\* last-commit command printed nothing, it returns commitCount 0, lastCommit
\* null and isGitTracked false; and in every value it returns isGitTracked
\* is true if and only if lastCommit is not null.
C16_GitMetricsDegrade ==
    /\ pc # "threw"
    /\ pc = "returned" =>
          /\ (\/ gitReplies.count.failed
               \/ gitReplies.last.failed
               \/ Trim(gitReplies.last.out) = <<>>) =>
                 gitMetrics[1] =
                     [commitCount |-> 0, lastCommit |-> <<>>, isGitTracked |-> FALSE]
          /\ gitMetrics[1].isGitTracked <=> gitMetrics[1].lastCommit # <<>>

\* getGitMetrics has returned after the last-commit command failed
C16_Witness ==
    /\ pc = "returned"
    /\ ~gitReplies.count.failed
    /\ gitReplies.last.failed
    /\ ~gitMetrics[1].isGitTracked

(***************************************************************************)
(* main: the command line run                                               *)
(***************************************************************************)

\* isGitHubUrl(input)
IsGitHubUrl(input) ==
    \/ StartsWith(input, <<"h","t","t","p",":","/","/">>)
    \/ StartsWith(input, <<"h","t","t","p","s",":","/","/">>)
    \/ StartsWith(input, <<"g","i","t","@">>)

SwarmdeskTemp == <<".","s","w","a","r","m","d","e","s","k","-","t","e","m","p">>

\* path.join(process.cwd(), '.swarmdesk-temp', `repo-${Date.now()}`)
TempDirPath == <<"/","c","w","d","/">> \o SwarmdeskTemp \o <<"/","r","e","p","o","-","1">>

\* path.resolve(targetPath)
Resolve(target) == <<"/","c","w","d","/">> \o target

\* args[0]
CliTargets ==
    { <<"h","t","t","p","s",":","/","/","g","i","t","h","u","b",".","c","o","m",
        "/","o","/","r">>,
      <<"g","i","t","@","g","i","t","h","u","b",".","c","o","m",":","o","/","r">>,
      <<"p","r","o","j">> }

\* the tree at the local path, or the tree of the repository; <<>> when
\* the local path does not exist
CliCandidates ==
    << Cand(<<NmIndexJs>>, "file", Readable({TextGarbage})),
       Cand(<<NmSrc>>, "dir", EitherReadable),
       Cand(<<NmSrc, NmUtilTs>>, "file",
            Readable({TextAExtendsFoo, TextGarbage}) \cup Unreadable),
       Cand(<<NmSrc, NmFooTsx>>, "file", Readable({TextFooExtendsUiBox})) >>

CliFileSystems ==
    { f \in BuildFs(CliCandidates, Len(CliCandidates), MaxFiles,
                     Len(CliCandidates)) : f[1].readable }

InitCli ==
    /\ targetPath \in CliTargets
    /\ fs \in CliFileSystems \cup {<<>>}
    /\ IsGitHubUrl(targetPath) => fs # <<>>
    /\ includePatterns = <<NmSrc, NmLib>>
    /\ excludePatterns = <<NmNodeModules, NmDist>>
    /\ pc = "main"
    /\ files = <<>>
    /\ done = 0
    /\ classes = <<>>
    /\ packages = <<>>
    /\ externalClasses = <<>>
    /\ snapshot = <<>>
    /\ previous = <<>>
    /\ workingPath = targetPath
    /\ isTemp = FALSE
    /\ tempDir = "absent"
    /\ outputWrites = <<>>
    /\ exitCode = <<>>
    /\ gitReplies = <<>>
    /\ gitMetrics = <<>>
    /\ TuiIdle

\* lines 1038-1048: cloneRepository (mkdirSync or git clone may fail, and
\* the exception is rethrown) or the test that the local path exists
MainEnter ==
    /\ pc = "main"
    /\ IF IsGitHubUrl(targetPath)
       THEN \E outcome \in {"mkdir fails", "clone fails", "cloned"} :
                /\ tempDir' = IF outcome = "mkdir fails" THEN "absent" ELSE "present"
                /\ IF outcome = "cloned"
                   THEN /\ workingPath' = TempDirPath
                        /\ isTemp' = TRUE
                        /\ pc' = "start"
                   ELSE /\ UNCHANGED <<workingPath, isTemp>>
                        /\ pc' = "catch"
       ELSE /\ workingPath' = Resolve(targetPath)
            /\ pc' = IF ExistsSync(fs, <<>>) THEN "start" ELSE "catch"
            /\ UNCHANGED <<isTemp, tempDir>>
    /\ UNCHANGED <<fs, includePatterns, excludePatterns, files, done, classes,
                   packages, externalClasses, snapshot>>
    /\ UNCHANGED <<previous, targetPath, outputWrites, exitCode, gitVars>>
    /\ UNCHANGED tuiVars

\* lines 1056-1068: generateUML has returned; fs.writeFileSync writes the
\* whole document or throws
MainWrite ==
    /\ pc = "done"
    /\ \E written \in BOOLEAN :
          IF written
          THEN /\ outputWrites' = Append(outputWrites, snapshot[1])
               /\ pc' = "finally"
          ELSE /\ UNCHANGED outputWrites
               /\ pc' = "catch"
    /\ UNCHANGED <<fs, includePatterns, excludePatterns, files, done, classes,
                   packages, externalClasses, snapshot>>
    /\ UNCHANGED <<previous, targetPath, workingPath, isTemp, tempDir, exitCode,
                   gitVars>>
    /\ UNCHANGED tuiVars

\* mutant: the catch block reports the error and does not exit
MainCatchNoExit ==
    /\ pc \in {"catch", "threw"}
    /\ pc' = "finally"
    /\ UNCHANGED <<fs, includePatterns, excludePatterns, files, done, classes,
                   packages, externalClasses, snapshot>>
    /\ UNCHANGED <<previous, cliVars, gitVars>>
    /\ UNCHANGED tuiVars

\* lines 1070-1072: the exception of the try block (of cloneRepository, of
\* the existence test, of generateUML or of writeFileSync) is reported and
\* process.exit(1) ends the process there
MainCatch ==
    /\ pc \in {"catch", "threw"}
    /\ exitCode' = <<1>>
    /\ pc' = "exited"
    /\ UNCHANGED <<fs, includePatterns, excludePatterns, files, done, classes,
                   packages, externalClasses, snapshot>>
    /\ UNCHANGED <<previous, targetPath, workingPath, isTemp, tempDir,
                   outputWrites, gitVars>>
    /\ UNCHANGED tuiVars

\* lines 1073-1078 with cleanupTemp (lines 597-606), then main returns and
\* the process ends with code 0; "kept" is a directory that rmSync failed
\* to remove
MainFinally ==
    /\ pc = "finally"
    /\ IF isTemp /\ Includes(workingPath, SwarmdeskTemp)
       THEN \E removed \in BOOLEAN :
                tempDir' = IF removed THEN "removed" ELSE "kept"
       ELSE UNCHANGED tempDir
    /\ exitCode' = <<0>>
    /\ pc' = "exited"
    /\ UNCHANGED <<fs, includePatterns, excludePatterns, files, done, classes,
                   packages, externalClasses, snapshot>>
    /\ UNCHANGED <<previous, targetPath, workingPath, isTemp, outputWrites,
                   gitVars>>
    /\ UNCHANGED tuiVars

NextCli ==
    \/ MainEnter
    \/ Discover
    \/ AnalyzeNext
    \/ CreateStubs
    \/ ReturnSnapshot
    \/ MainWrite
    \/ MainCatch
    \/ MainFinally

SpecCli == InitCli /\ [][NextCli]_vars

(***************************************************************************)
(* Claims about main                                                        *)
(***************************************************************************)

\* the local root path does not exist
RootMissing == ~IsGitHubUrl(targetPath) /\ fs = <<>>

\* cloneRepository threw
CloneFailed == IsGitHubUrl(targetPath) /\ pc # "main" /\ ~isTemp

\* generateUML throws when it is called on the tree
GenerateThrows ==
    fs # <<>> /\ FindSourceFiles(fs, includePatterns, excludePatterns).threw

FatalFailure == RootMissing \/ CloneFailed \/ GenerateThrows

\* C17: in a run of main the output file is written at most once and only
\* with the complete document generateUML returned; when the root path
\* does not exist, cloning fails or generateUML throws, nothing is written,
\* the run stands before the existence test, the clone, findSourceFiles or
\* the catch block until the process ends, and the process ends with an
\* exit code other than 0.
C17_WriteOnceOrFail ==
    /\ Len(outputWrites) <= 1
    /\ outputWrites # <<>> =>
          /\ snapshot # <<>>
          /\ outputWrites[1] = snapshot[1]
    /\ FatalFailure =>
          /\ outputWrites = <<>>
          /\ exitCode = <<>> => pc \in {"main", "start", "catch", "threw"}
          /\ exitCode # <<>> => exitCode[1] # 0

\* the process has ended with code 1 and no output after generateUML threw
\* on a cloned tree
C17_Witness ==
    /\ pc = "exited"
    /\ GenerateThrows
    /\ isTemp
    /\ exitCode = <<1>>
    /\ outputWrites = <<>>

\* C18: when the target is a GitHub URL and the process has ended, the
\* directory created for the clone below .swarmdesk-temp has been handed
\* to cleanupTemp (it was never created, was removed, or rmSync failed on
\* it).
C18_TempDirCleanedUp ==
    (IsGitHubUrl(targetPath) /\ exitCode # <<>>) =>
        tempDir \in {"absent", "removed", "kept"}

(***************************************************************************)
(* runAnalysis (tui.js)                                                     *)
(***************************************************************************)

\* lines 215-225: findSourceFiles on the selected path; readdirSync throws
\* on a path that is a URL (the interactive session does not clone); with
\* no source file runAnalysis returns null
TuiDiscover ==
    /\ pc = "tuiStart"
    /\ LET r == IF IsGitHubUrl(projectPath)
                THEN [threw |-> TRUE, files |-> <<>>]
                ELSE FindSourceFiles(fs, includePatterns, excludePatterns)
       IN  /\ pc' = IF r.threw THEN "tuiThrew"
                    ELSE IF Len(r.files) = 0 THEN "tuiNull"
                    ELSE "tuiAnalyze"
           /\ files' = IF r.threw THEN <<>> ELSE r.files
    /\ done' = 0
    /\ classes' = <<>>
    /\ packages' = <<>>
    /\ UNCHANGED <<fs, includePatterns, excludePatterns, externalClasses,
                   snapshot>>
    /\ UNCHANGED <<previous, cliVars, gitVars, tuiVars>>

\* lines 237-260: one iteration of the loop over files, the catch included
TuiAnalyzeNext ==
    /\ pc = "tuiAnalyze"
    /\ done < Len(files)
    /\ \E classToken \in RandomTokens, packageToken \in RandomTokens :
          LET r == AnalyzeFile(fs, NodeAt(fs, files[done + 1]), classToken)
          IN  IF r.threw
              THEN UNCHANGED <<classes, packages>>
              ELSE /\ classes' = Append(classes, r.rec)
                   /\ packages' = GroupByPackage(packages, r.rec, packageToken)
    /\ done' = done + 1
    /\ UNCHANGED <<fs, includePatterns, excludePatterns, pc, files,
                   externalClasses, snapshot>>
    /\ UNCHANGED <<previous, cliVars, gitVars, tuiVars>>

\* lines 262-300: the returned document; no step between the loop and the
\* return looks at extends or implements
TuiReturn ==
    /\ pc = "tuiAnalyze"
    /\ done = Len(files)
    /\ snapshot' = <<[version |-> "6.0", packages |-> packages, classes |-> classes]>>
    /\ pc' = "tuiDone"
    /\ UNCHANGED <<fs, includePatterns, excludePatterns, files, done, classes,
                   packages, externalClasses>>
    /\ UNCHANGED <<previous, cliVars, gitVars, tuiVars>>

(***************************************************************************)
(* generateUML, then runAnalysis on the same tree with the same lists      *)
(***************************************************************************)

ProjectDir == <<"p","r","o","j">>

\* the caller keeps the document of generateUML and calls runAnalysis
\* with the same root and the same include and exclude lists
ThenRunAnalysis ==
    /\ pc = "done"
    /\ previous = <<>>
    /\ previous' = <<Abstract(snapshot[1])>>
    /\ projectPath' = ProjectDir
    /\ pc' = "tuiStart"
    /\ files' = <<>>
    /\ done' = 0
    /\ classes' = <<>>
    /\ packages' = <<>>
    /\ externalClasses' = <<>>
    /\ snapshot' = <<>>
    /\ UNCHANGED <<fs, includePatterns, excludePatterns, cliVars, gitVars>>
    /\ UNCHANGED <<continueAnalyzing, caught, iteration, lastMessage>>

NextBoth ==
    \/ Discover
    \/ AnalyzeNext
    \/ CreateStubs
    \/ ReturnSnapshot
    \/ ThenRunAnalysis
    \/ TuiDiscover
    \/ TuiAnalyzeNext
    \/ TuiReturn

SpecBoth == Init /\ [][NextBoth]_vars

(***************************************************************************)
(* Claims about runAnalysis                                                 *)
(***************************************************************************)

\* C21: when runAnalysis has returned a document for the root, the include
\* list and the exclude list that generateUML returned a document for, the
\* two documents have the same classes (the stubs included) and the same
\* packages (the external package included), the generated ids abstracted.
C21_TuiSameAsCli ==
    (pc = "tuiDone" /\ previous # <<>>) => Abstract(snapshot[1]) = previous[1]

(***************************************************************************)
(* main of tui.js: the interactive session                                  *)
(***************************************************************************)

\* what a rejected inquirer prompt (or any other call) throws: an error
\* with isTtyError, an error with the message 'User force closed the
\* prompt', or any other error
ErrorKinds == {"tty", "forceClosed", "other"}

GitHubUrl ==
    <<"h","t","t","p","s",":","/","/","g","i","t","h","u","b",".","c","o","m",
      "/","o","/","r">>

TuiCandidates ==
    << Cand(<<NmIndexJs>>, "file", Readable({TextGarbage})),
       Cand(<<NmSrc>>, "dir", EitherReadable),
       Cand(<<NmSrc, NmUtilTs>>, "file",
            Readable({TextAExtendsFoo}) \cup Unreadable) >>

TuiFileSystems ==
    { f \in BuildFs(TuiCandidates, Len(TuiCandidates), MaxFiles,
                    Len(TuiCandidates)) : f[1].readable }

\* <<include list, exclude list>>: the defaults of configureOptions (the
\* first two of each) and a customized pair (answers "src" and
\* "node_modules")
TuiPatterns ==
    { <<<<NmSrc, NmLib>>, <<NmNodeModules, NmDist>>>>,
      <<<<NmSrc>>, <<NmNodeModules>>>> }

InitTui ==
    /\ fs \in TuiFileSystems
    /\ includePatterns = <<>>
    /\ excludePatterns = <<>>
    /\ pc = "select"
    /\ files = <<>>
    /\ done = 0
    /\ classes = <<>>
    /\ packages = <<>>
    /\ externalClasses = <<>>
    /\ snapshot = <<>>
    /\ Idle

\* lines 435-438 with selectProject (lines 79-149): the menu answer is
\* Exit (process.exit(0) there), a local directory or a GitHub URL, or a
\* prompt throws
TuiSelect ==
    /\ pc = "select"
    /\ continueAnalyzing
    /\ iteration < MaxIterations
    /\ iteration' = iteration + 1
    /\ snapshot' = <<>>
    /\ \/ /\ lastMessage' = "Exiting SwarmDesk UML Generator"
          /\ exitCode' = <<0>>
          /\ pc' = "ended"
          /\ UNCHANGED <<projectPath, caught>>
       \/ /\ projectPath' \in {ProjectDir, GitHubUrl}
          /\ pc' = "configure"
          /\ UNCHANGED <<lastMessage, exitCode, caught>>
       \/ \E e \in ErrorKinds :
             /\ caught' = <<e>>
             /\ pc' = "tuiCatch"
             /\ UNCHANGED <<projectPath, lastMessage, exitCode>>
    /\ UNCHANGED <<fs, includePatterns, excludePatterns, files, done, classes,
                   packages, externalClasses>>
    /\ UNCHANGED <<previous, targetPath, workingPath, isTemp, tempDir,
                   outputWrites, gitVars, continueAnalyzing>>

\* line 441 with configureOptions (lines 154-201)
TuiConfigure ==
    /\ pc = "configure"
    /\ \/ \E p \in TuiPatterns :
             /\ includePatterns' = p[1]
             /\ excludePatterns' = p[2]
             /\ pc' = "tuiStart"
             /\ UNCHANGED caught
       \/ \E e \in ErrorKinds :
             /\ caught' = <<e>>
             /\ pc' = "tuiCatch"
             /\ UNCHANGED <<includePatterns, excludePatterns>>
    /\ UNCHANGED <<fs, files, done, classes, packages, externalClasses, snapshot>>
    /\ UNCHANGED <<previous, cliVars, gitVars, projectPath, continueAnalyzing,
                   iteration, lastMessage>>

\* askContinue (lines 415-425) answered: yes goes on with the loop, no
\* leaves it, main returns (lines 478-479) and the process ends
Answered(again) ==
    /\ continueAnalyzing' = again
    /\ IF again
       THEN /\ pc' = "select"
            /\ UNCHANGED <<lastMessage, exitCode>>
       ELSE /\ pc' = "ended"
            /\ lastMessage' = "Thanks for using SwarmDesk UML Generator"
            /\ exitCode' = <<0>>

\* lines 446-462: runAnalysis has returned; with a document, displayResults
\* and saveOutput (lines 382-410, a failed write is caught there), then
\* askContinue in both cases
TuiSaveAndAsk ==
    /\ pc \in {"tuiDone", "tuiNull"}
    /\ IF pc = "tuiDone"
       THEN \E written \in BOOLEAN :
                outputWrites' = IF written THEN Append(outputWrites, snapshot[1])
                                ELSE outputWrites
       ELSE UNCHANGED outputWrites
    /\ \/ \E again \in BOOLEAN :
             /\ Answered(again)
             /\ UNCHANGED caught
       \/ \E e \in ErrorKinds :
             /\ caught' = <<e>>
             /\ pc' = "tuiCatch"
             /\ UNCHANGED <<continueAnalyzing, lastMessage, exitCode>>
    /\ UNCHANGED <<fs, includePatterns, excludePatterns, files, done, classes,
                   packages, externalClasses, snapshot>>
    /\ UNCHANGED <<previous, targetPath, workingPath, isTemp, tempDir, gitVars,
                   projectPath, iteration>>

\* lines 464-475: the catch block of the loop; the error is the one a
\* prompt threw or the one runAnalysis threw (findSourceFiles). A TTY error
\* exits with 1, a force-closed prompt with 0; any other error is reported
\* and askContinue is awaited inside the catch block, where an error it
\* throws leaves main and reaches main().catch (lines 486-489): "Fatal
\* error", process.exit(1)
TuiCatch ==
    /\ pc \in {"tuiCatch", "tuiThrew"}
    /\ LET error == IF pc = "tuiThrew" THEN "other" ELSE caught[1]
       IN  IF error = "tty"
           THEN /\ lastMessage' = "Interactive mode not supported"
                /\ exitCode' = <<1>>
                /\ pc' = "ended"
                /\ caught' = <<error>>
                /\ UNCHANGED continueAnalyzing
           ELSE IF error = "forceClosed"
           THEN /\ lastMessage' = "Exiting..."
                /\ exitCode' = <<0>>
                /\ pc' = "ended"
                /\ caught' = <<error>>
                /\ UNCHANGED continueAnalyzing
           ELSE \/ /\ \E again \in BOOLEAN : Answered(again)
                   /\ caught' = <<error>>
                \/ \E e \in ErrorKinds :
                      /\ caught' = <<e>>
                      /\ lastMessage' = "Fatal error"
                      /\ exitCode' = <<1>>
                      /\ pc' = "ended"
                      /\ UNCHANGED continueAnalyzing
    /\ UNCHANGED <<fs, includePatterns, excludePatterns, files, done, classes,
                   packages, externalClasses, snapshot>>
    /\ UNCHANGED <<previous, targetPath, workingPath, isTemp, tempDir,
                   outputWrites, gitVars, projectPath, iteration>>

NextTui ==
    \/ TuiSelect
    \/ TuiConfigure
    \/ TuiDiscover
    \/ TuiAnalyzeNext
    \/ TuiReturn
    \/ TuiSaveAndAsk
    \/ TuiCatch

SpecTui == InitTui /\ [][NextTui]_vars

(***************************************************************************)
(* Claims about the interactive session                                     *)
(***************************************************************************)

\* C22: an interactive session has ended only because the user picked Exit
\* in the project menu (exit code 0), because the user answered no to
\* "Analyze another project?", because a TTY error was raised (exit code
\* 1) or because a prompt was force-closed (exit code 0); an error of
\* another kind is never what ended it; and the loop stands at the project
\* menu again only after a yes answer.
C22_SessionEndsOnlyAsListed ==
    /\ pc = "ended" =>
          \/ lastMessage = "Exiting SwarmDesk UML Generator" /\ exitCode = <<0>>
          \/ lastMessage = "Thanks for using SwarmDesk UML Generator"
                /\ ~continueAnalyzing
          \/ caught = <<"tty">> /\ exitCode = <<1>>
          \/ caught = <<"forceClosed">> /\ exitCode = <<0>>
    /\ pc = "select" => continueAnalyzing

====
